---- MODULE Spec2Model ----
(***************************************************************************)
(* Inventory dashboard (Shopify + Warehouse + EBO + Orders).               *)
(*                                                                         *)
(* Three scripts are modelled, one action per script run:                  *)
(*   AdminRun  src/pages/1_Admin.py  password gate, load_file, session     *)
(*   UserRun   src/pages/2_User.py   metrics, trends, overview, classify   *)
(*   AppRun    src/app.py            the single-page variant (sheets)      *)
(*                                                                         *)
(* Data representation.  A cell of a table is a record [t, s, n]:          *)
(*   Str(x)  text x          Num(i)  the number i          NaN  missing    *)
(* In a quantity column a Str cell is text that does not parse as a        *)
(* number; in "Created at" a Num cell is a parseable date (in days) and    *)
(* anything else does not parse.  A column name is [lead, core, trail]:    *)
(* the text core with lead/trail whitespace characters around it.  A row   *)
(* maps the core of each column to a cell.  An optional value (a Python    *)
(* None or an object) is a sequence of length 0 or 1.                      *)
(*                                                                         *)
(* src/app.py as given binds whole lists where 2_User.py takes an element  *)
(* (app.py:37 columns=data, :128 merged = dfs, :310 match = match_data);   *)
(* these are read as the element accesses of the twin code in 2_User.py    *)
(* (:92 combined[0], :225 match_data[0]); everything else is as written.   *)
(***************************************************************************)
EXTENDS Integers, Sequences, FiniteSets, Bags, TLC

VARIABLES
    sheets,              \* the raw tables at hand: worksheets / files to upload
    WRatio,              \* the similarity scorer: query -> choice -> 0..100
    files,               \* the four file_uploader values of the last Admin run
    session,             \* st.session_state: the four slots
    page,                \* the script that ran last
    status,              \* how that run ended: ok | stopped | error
    errors,              \* st.error messages of the run's loader calls
    tables,              \* the run's shopify_df, warehouse_df, ebo_df, orders_df
    done,                \* the views the run computed
    overall_total,       \* Key Metrics: Overall Qty
    recent,              \* Sales Trends: the orders inside the window
    reorder_designs,     \* Sales Trends: list
    notselling_designs,  \* Sales Trends: list
    merged,              \* Inventory Overview: [columns, rows (a bag)]
    external_df,         \* Classification: the deduplicated external records
    listed,              \* Classification: list
    nonlisted,           \* Classification: list
    query,               \* Search: the text in the search box during the run
    results              \* Search: per source, how the query resolved and its Qty

vars == <<sheets, WRatio, files, session, page, status, errors, tables, done,
          overall_total, recent, reorder_designs, notselling_designs,
          merged, external_df, listed, nonlisted, query, results>>

env == <<sheets, WRatio>>

outputs == <<done, overall_total, recent, reorder_designs, notselling_designs,
             merged, external_df, listed, nonlisted, results>>

---------------------------------------------------------------------------
(* Values *)

None == << >>
Some(x) == <<x>>
Get(o) == o[1]

Str(x) == [t |-> "str", s |-> x, n |-> 0]
Num(i) == [t |-> "num", s |-> "", n |-> i]
NaN == [t |-> "nan", s |-> "", n |-> 0]

isna(c) == c.t = "nan"

Plain(c) == [lead |-> 0, core |-> c, trail |-> 0]

Labels == {"Shopify", "Warehouse", "EBO", "Orders"}
Inventory == <<"Warehouse", "Shopify", "EBO">>
Slots == {"shopify_df", "warehouse_df", "ebo_df", "orders_df"}

SlotOf(label) ==
    CASE label = "Shopify" -> "shopify_df"
      [] label = "Warehouse" -> "warehouse_df"
      [] label = "EBO" -> "ebo_df"
      [] label = "Orders" -> "orders_df"

REQ_SHOPIFY == <<"Barcode", "Design No", "Closing Qty", "CDN link">>
REQ_WAREHOUSE == <<"Barcode", "Design No", "Closing Qty">>
REQ_EBO == <<"Barcode", "Design No", "Closing Qty">>
REQ_ORDERS == <<"Design No", "Quantity", "Created at">>

Req(label) ==
    CASE label = "Shopify" -> REQ_SHOPIFY
      [] label = "Warehouse" -> REQ_WAREHOUSE
      [] label = "EBO" -> REQ_EBO
      [] label = "Orders" -> REQ_ORDERS

Range(s) == {s[i] : i \in DOMAIN s}

RECURSIVE SumSeq(_)
SumSeq(s) == IF s = << >> THEN 0 ELSE Head(s) + SumSeq(Tail(s))

---------------------------------------------------------------------------
(* Record Normalizer: load_file (Admin page) and fetch_sheet_df (app.py) *)

\* str.strip() of a column name
strip(h) == [lead |-> 0, core |-> h.core, trail |-> 0]

\* astype(str)
astype_str(c) ==
    CASE c.t = "str" -> c
      [] c.t = "num" -> Str(ToString(c.n))
      [] c.t = "nan" -> Str("nan")

\* pd.to_numeric(errors="coerce"): text that is no number becomes NaN
to_numeric(c) == IF c.t = "num" THEN c ELSE NaN

\* .fillna(0) of one cell
fillna0(c) == IF isna(c) THEN Num(0) ELSE c

\* pd.to_numeric(..., errors="coerce").fillna(0).astype(int)
to_int(c) == fillna0(to_numeric(c))

\* pd.to_datetime(errors="coerce"): what does not parse becomes NaT
to_datetime(c) == IF c.t = "num" THEN c ELSE NaN

\* the casts of one row, for the columns the table has
CastRow(columns, row) ==
    [k \in DOMAIN row |->
        CASE k = "Design No" -> astype_str(row[k])
          [] k = "Barcode" /\ Plain("Barcode") \in columns -> astype_str(row[k])
          [] k = "Closing Qty" /\ Plain("Closing Qty") \in columns -> to_int(row[k])
          [] k = "Quantity" /\ Plain("Quantity") \in columns -> to_int(row[k])
          [] k = "Created at" /\ Plain("Created at") \in columns -> to_datetime(row[k])
          [] OTHER -> row[k]]

\* the columns after df.columns = df.columns.str.strip()
StripColumns(header) == {strip(h) : h \in header}

\* mutant: only the first missing column is reported
Missing_FirstOnly(req_cols, columns) ==
    LET absent(c) == Plain(c) \notin columns
        all == SelectSeq(req_cols, absent)
    IN IF all = << >> THEN << >> ELSE <<all[1]>>

\* [c for c in req_cols if c not in df.columns]
Missing(req_cols, columns) ==
    LET absent(c) == Plain(c) \notin columns
    IN SelectSeq(req_cols, absent)

SchemaError(label, missing) == [label |-> label, kind |-> "missing", missing |-> missing]
EmptyError(label) == [label |-> label, kind |-> "empty", missing |-> << >>]

\* the part load_file and fetch_sheet_df share: strip, check, cast
Normalize(raw, req_cols, label) ==
    LET columns == StripColumns(raw.header)
        missing == Missing(req_cols, columns)
    IN IF missing # << >>
       THEN [df |-> None, err |-> {SchemaError(label, missing)}]
       ELSE [df |-> Some([columns |-> columns,
                          rows |-> [i \in DOMAIN raw.rows |-> CastRow(columns, raw.rows[i])]]),
             err |-> {}]

load_file(file, req_cols, label) ==
    IF file = None
    THEN [df |-> None, err |-> {}]
    ELSE Normalize(Get(file), req_cols, label)

\* ws.get_all_values(): every cell is text, an empty cell the empty text; a
\* Num(i) cell stands for the text of i, which the casts parse back to i
get_all_values(sheet) ==
    [header |-> sheet.header,
     rows |-> [i \in DOMAIN sheet.rows |->
                 [k \in DOMAIN sheet.rows[i] |->
                     IF isna(sheet.rows[i][k]) THEN Str("") ELSE sheet.rows[i][k]]]]

fetch_sheet_df(sheet, req_cols, label) ==
    IF sheet = None \/ Get(sheet).rows = << >>
    THEN [df |-> None, err |-> {EmptyError(label)}]
    ELSE Normalize(get_all_values(Get(sheet)), req_cols, label)

---------------------------------------------------------------------------
(* Key Metrics *)

\* df["Closing Qty"].sum() if df is not None else 0
ClosingTotal(df) ==
    IF df = None THEN 0
    ELSE SumSeq([i \in DOMAIN Get(df).rows |-> Get(df).rows[i]["Closing Qty"].n])

OverallTotal(t) ==
    ClosingTotal(t.warehouse_df) + ClosingTotal(t.ebo_df) + ClosingTotal(t.shopify_df)

---------------------------------------------------------------------------
(* Sales Trends (Reorder / Not Selling) *)

WindowDays == 3
ReorderThreshold == 10
NotSellingThreshold == 10

\* the Design No values, in the order groupby sorts them
DesignOrder == <<"D1", "D1X", "D2", "D3", "nan">>

\* orders_df["Created at"].max(): NaT is skipped; None when nothing is left
MaxDate(rows) ==
    LET valid == {rows[i]["Created at"].n : i \in {j \in DOMAIN rows : ~isna(rows[j]["Created at"])}}
    IN IF valid = {} THEN None
       ELSE Some(CHOOSE m \in valid : \A v \in valid : v <= m)

\* mutant: the cutoff itself is outside the window
Recent_Strict(rows, cutoff) ==
    LET inWindow(r) == ~isna(r["Created at"]) /\ r["Created at"].n > cutoff
    IN SelectSeq(rows, inWindow)

\* orders_df[orders_df["Created at"] >= cutoff]: a comparison with NaT is False
Recent(rows, cutoff) ==
    LET inWindow(r) == ~isna(r["Created at"]) /\ r["Created at"].n >= cutoff
    IN SelectSeq(rows, inWindow)

\* recent.groupby("Design No")["Quantity"].sum() for one design
Sales(rows, d) ==
    LET ofDesign(r) == r["Design No"].s = d
        grp == SelectSeq(rows, ofDesign)
    IN SumSeq([i \in DOMAIN grp |-> grp[i]["Quantity"].n])

SalesDesigns(rows) == {rows[i]["Design No"].s : i \in DOMAIN rows}

\* mutant: the threshold itself counts as reorder
IsReorder_AtLeast(qty) == qty >= ReorderThreshold

IsReorder(qty) == qty > ReorderThreshold

IsNotSelling(qty) == ~IsReorder(qty) /\ qty < NotSellingThreshold

NoTrends == [recent |-> << >>, reorder |-> << >>, notselling |-> << >>]

\* mutant: without a valid date every order counts as recent
Trends_Unwindowed(orders_df) ==
    IF orders_df = None
    THEN NoTrends
    ELSE LET max_date == MaxDate(Get(orders_df).rows)
             rec == IF max_date = None THEN Get(orders_df).rows
                    ELSE Recent(Get(orders_df).rows, Get(max_date) - WindowDays)
             isRe(d) == d \in SalesDesigns(rec) /\ IsReorder(Sales(rec, d))
             isNot(d) == d \in SalesDesigns(rec) /\ IsNotSelling(Sales(rec, d))
         IN [recent |-> rec,
             reorder |-> SelectSeq(DesignOrder, isRe),
             notselling |-> SelectSeq(DesignOrder, isNot)]

\* metrics row of either script: Reorder / Not Selling
Trends(orders_df) ==
    IF orders_df = None
    THEN NoTrends
    ELSE LET max_date == MaxDate(Get(orders_df).rows)
         IN IF max_date = None
            THEN NoTrends
            ELSE LET cutoff == Get(max_date) - WindowDays
                     rec == Recent(Get(orders_df).rows, cutoff)
                     isRe(d) == d \in SalesDesigns(rec) /\ IsReorder(Sales(rec, d))
                     isNot(d) == d \in SalesDesigns(rec) /\ IsNotSelling(Sales(rec, d))
                 IN [recent |-> rec,
                     reorder |-> SelectSeq(DesignOrder, isRe),
                     notselling |-> SelectSeq(DesignOrder, isNot)]

---------------------------------------------------------------------------
(* Inventory Overview: aggregate each source, outer-merge, fill, total *)

\* the groupby / merge key of each script
UserKey == {"Design No", "Barcode", "Color", "Size"}
AppKey == {"Design No", "Barcode", "Size"}

\* f"{label}_Qty"
QtyCol(label) ==
    CASE label = "Warehouse" -> "Warehouse_Qty"
      [] label = "Shopify" -> "Shopify_Qty"
      [] label = "EBO" -> "EBO_Qty"

\* c.endswith("_Qty"), for the columns a merged table can have
EndsWithQty(c) == c \in {QtyCol(Inventory[i]) : i \in DOMAIN Inventory}

HasColumns(df, names) == \A c \in names : Plain(c) \in df.columns

\* app.py: if col not in df.columns: df[col] = ""   (in place, on the source table)
AddSize(df) ==
    IF Plain("Size") \in df.columns THEN df
    ELSE [columns |-> df.columns \cup {Plain("Size")},
          rows |-> [i \in DOMAIN df.rows |->
                      [k \in DOMAIN df.rows[i] \cup {"Size"} |->
                          IF k = "Size" THEN Str("") ELSE df.rows[i][k]]]]

\* the key tuple of a row: its cells in the key columns
KeyOf(row, key) == [k \in key |-> row[k]]

\* the sum of Closing Qty over the rows of one group
GroupSum(rows, key, k) ==
    LET inGroup(r) == KeyOf(r, key) = k
        grp == SelectSeq(rows, inGroup)
    IN SumSeq([i \in DOMAIN grp |-> grp[i]["Closing Qty"].n])

\* mutant: groupby with its default dropna=True, which leaves out the rows
\* that have a missing key cell
Aggregate_DropNa(df, key, label) ==
    LET whole(r) == \A c \in key : ~isna(r[c])
        keys == {KeyOf(df.rows[i], key) : i \in {j \in DOMAIN df.rows : whole(df.rows[j])}}
    IN [columns |-> key \cup {QtyCol(label)},
        rows |-> {[c \in key \cup {QtyCol(label)} |->
                      IF c \in key THEN k[c] ELSE Num(GroupSum(df.rows, key, k))]
                  : k \in keys}]

\* df.groupby(key, dropna=False)["Closing Qty"].sum().reset_index(), renamed:
\* one row per distinct key tuple, a missing key cell being a group value
Aggregate(df, key, label) ==
    LET keys == {KeyOf(df.rows[i], key) : i \in DOMAIN df.rows}
    IN [columns |-> key \cup {QtyCol(label)},
        rows |-> {[c \in key \cup {QtyCol(label)} |->
                      IF c \in key THEN k[c] ELSE Num(GroupSum(df.rows, key, k))]
                  : k \in keys}]

\* left.merge(right, on=key, how="outer"), both sides having one row per key:
\* every key of either side once; a side that lacks the key gives NaN in its
\* own columns; missing key cells match each other
OuterMerge(left, right, key) ==
    LET keys == {KeyOf(r, key) : r \in left.rows \cup right.rows}
        columns == left.columns \cup right.columns
        side(t, k, c) ==
            IF \E r \in t.rows : KeyOf(r, key) = k
            THEN (CHOOSE r \in t.rows : KeyOf(r, key) = k)[c]
            ELSE NaN
    IN [columns |-> columns,
        rows |-> {[c \in columns |->
                      IF c \in key THEN k[c]
                      ELSE IF c \in left.columns THEN side(left, k, c)
                      ELSE side(right, k, c)]
                  : k \in keys}]

\* merged = combined[0]; for part in combined[1:]: merged = merged.merge(part, ...)
RECURSIVE MergeAll(_, _, _)
MergeAll(acc, parts, key) ==
    IF parts = << >> THEN acc
    ELSE MergeAll(OuterMerge(acc, Head(parts), key), Tail(parts), key)

\* app.py: for col in [...]: if col not in merged.columns: merged[col] = 0
AddQtyColumns(t) ==
    LET columns == t.columns \cup {QtyCol(Inventory[i]) : i \in DOMAIN Inventory}
    IN [columns |-> columns,
        rows |-> {[c \in columns |-> IF c \in t.columns THEN r[c] ELSE Num(0)] : r \in t.rows}]

\* merged.fillna(0) of one row: every missing cell, of whatever column
FillRow(r) == [c \in DOMAIN r |-> fillna0(r[c])]

\* merged[qty_cols].sum(axis=1)
RowTotal(r) ==
    LET cols == {c \in DOMAIN r : EndsWithQty(c)}
        RECURSIVE Sum(_)
        Sum(S) == IF S = {} THEN 0
                  ELSE LET c == CHOOSE x \in S : TRUE IN r[c].n + Sum(S \ {c})
    IN Sum(cols)

WithTotal(r) ==
    [c \in DOMAIN r \cup {"Total_QTY"} |-> IF c = "Total_QTY" THEN Num(RowTotal(r)) ELSE r[c]]

\* merged.fillna(0), then merged["Total_QTY"] = ...: the rows as a bag, since
\* filling can make two rows equal
Finish(t) ==
    LET out(r) == WithTotal(FillRow(r))
        image == {out(r) : r \in t.rows}
    IN [columns |-> t.columns \cup {"Total_QTY"},
        rows |-> [x \in image |-> Cardinality({r \in t.rows : out(r) = x})]]

\* the sources that are loaded, in the order of the loop
Present(dfs) ==
    LET has(label) == dfs[label] # None
    IN SelectSeq(Inventory, has)

\* the aggregated tables of the loaded sources
Combined(dfs, key) ==
    LET labels == Present(dfs)
    IN [i \in DOMAIN labels |-> Aggregate(Get(dfs[labels[i]]), key, labels[i])]

\* 2_User.py tab1, for tables that have the key columns
UserOverview(dfs) ==
    LET combined == Combined(dfs, UserKey)
    IN Finish(MergeAll(Head(combined), Tail(combined), UserKey))

\* app.py tab1, after the Size column was added where missing
AppOverview(dfs) ==
    LET combined == Combined(dfs, AppKey)
    IN Finish(AddQtyColumns(MergeAll(Head(combined), Tail(combined), AppKey)))

---------------------------------------------------------------------------
(* Listed vs Non-Listed *)

FuzzyThreshold == 80

\* df[["Design No", "Barcode", "Closing Qty"]]
Project(df) ==
    [i \in DOMAIN df.rows |->
        [k \in {"Design No", "Barcode", "Closing Qty"} |-> df.rows[i][k]]]

\* pd.concat(external_df_list, ignore_index=True)
Concat(warehouse_df, ebo_df) ==
    (IF warehouse_df = None THEN << >> ELSE Project(Get(warehouse_df)))
    \o (IF ebo_df = None THEN << >> ELSE Project(Get(ebo_df)))

\* mutant: no row is dropped
drop_duplicates_None(rows) == rows

\* .drop_duplicates(): a row equal in every column to an earlier row is dropped
RECURSIVE drop_duplicates(_)
drop_duplicates(rows) ==
    IF rows = << >> THEN << >>
    ELSE LET init == SubSeq(rows, 1, Len(rows) - 1)
             last == rows[Len(rows)]
         IN IF \E i \in DOMAIN init : init[i] = last
            THEN drop_duplicates(init)
            ELSE Append(drop_duplicates(init), last)

\* set(shopify_df[col].astype(str).tolist())
Pool(shopify_df, col) == {astype_str(shopify_df.rows[i][col]).s : i \in DOMAIN shopify_df.rows}

\* process.extractOne(d, choices): None for no choices, else the best score
extractOne(scorer, d, choices) ==
    IF choices = {} THEN None
    ELSE Some(CHOOSE m \in {scorer[d][c] : c \in choices} :
                 \A c \in choices : scorer[d][c] <= m)

ListedEntry(d, b, closing_qty, match_type) ==
    [Design_No |-> d, Barcode |-> b, Closing_Qty |-> closing_qty, Match_Type |-> match_type]

NonListedEntry(d, b, closing_qty) ==
    [Design_No |-> d, Barcode |-> b, Closing_Qty |-> closing_qty]

\* f"Fuzzy ({score})"
FuzzyTag(score) == "Fuzzy (" \o ToString(score) \o ")"

\* mutant: the barcode is not looked up
IsExact_DesignOnly(d, b, shopify_designs, shopify_barcodes) == d \in shopify_designs

IsExact(d, b, shopify_designs, shopify_barcodes) ==
    (d \in shopify_designs) \/ (b \in shopify_barcodes)

\* mutant: a score at the threshold is rejected
IsFuzzy_Strict(match_data) == match_data # None /\ Get(match_data) > FuzzyThreshold

IsFuzzy(match_data) == match_data # None /\ Get(match_data) >= FuzzyThreshold

\* mutant: a row with nothing to compare against is appended to neither list
ClassifyRow_SkipUnmatched(acc, row, scorer, shopify_designs, shopify_barcodes) ==
    LET d == row["Design No"].s
        b == row["Barcode"].s
        closing_qty == row["Closing Qty"].n
        match_data == extractOne(scorer, d, shopify_designs)
    IN IF IsExact(d, b, shopify_designs, shopify_barcodes)
       THEN [acc EXCEPT !.listed = Append(@, ListedEntry(d, b, closing_qty, "Exact"))]
       ELSE IF match_data = None THEN acc
       ELSE IF IsFuzzy(match_data)
       THEN [acc EXCEPT !.listed = Append(@, ListedEntry(d, b, closing_qty,
                                                         FuzzyTag(Get(match_data))))]
       ELSE [acc EXCEPT !.nonlisted = Append(@, NonListedEntry(d, b, closing_qty))]

\* one turn of the loop over external_df: the lists with the row appended
ClassifyRow(acc, row, scorer, shopify_designs, shopify_barcodes) ==
    LET d == row["Design No"].s
        b == row["Barcode"].s
        closing_qty == row["Closing Qty"].n
        match_data == extractOne(scorer, d, shopify_designs)
    IN IF IsExact(d, b, shopify_designs, shopify_barcodes)
       THEN [acc EXCEPT !.listed = Append(@, ListedEntry(d, b, closing_qty, "Exact"))]
       ELSE IF IsFuzzy(match_data)
       THEN [acc EXCEPT !.listed = Append(@, ListedEntry(d, b, closing_qty,
                                                         FuzzyTag(Get(match_data))))]
       ELSE [acc EXCEPT !.nonlisted = Append(@, NonListedEntry(d, b, closing_qty))]

RECURSIVE ClassifyRows(_, _, _, _, _)
ClassifyRows(acc, rows, scorer, shopify_designs, shopify_barcodes) ==
    IF rows = << >> THEN acc
    ELSE ClassifyRows(ClassifyRow(acc, Head(rows), scorer, shopify_designs, shopify_barcodes),
                      Tail(rows), scorer, shopify_designs, shopify_barcodes)

NoClassification == [ran |-> FALSE, external |-> << >>, listed |-> << >>, nonlisted |-> << >>]

\* tab4 of either script
Classify(t, scorer) ==
    IF t.shopify_df = None THEN NoClassification
    ELSE IF t.warehouse_df = None /\ t.ebo_df = None THEN NoClassification
    ELSE LET shopify_designs == Pool(Get(t.shopify_df), "Design No")
             shopify_barcodes == Pool(Get(t.shopify_df), "Barcode")
             ext == drop_duplicates(Concat(t.warehouse_df, t.ebo_df))
             res == ClassifyRows([listed |-> << >>, nonlisted |-> << >>], ext, scorer,
                                 shopify_designs, shopify_barcodes)
         IN [ran |-> TRUE, external |-> ext, listed |-> res.listed, nonlisted |-> res.nonlisted]

---------------------------------------------------------------------------
(* The script runs *)

NoFrames == [shopify_df |-> None, warehouse_df |-> None, ebo_df |-> None, orders_df |-> None]

\* the (label, df) pairs the overview and search loops go through
InventoryOf(t) ==
    [label \in Range(Inventory) |->
        CASE label = "Warehouse" -> t.warehouse_df
          [] label = "Shopify" -> t.shopify_df
          [] label = "EBO" -> t.ebo_df]

AnyInventory(t) == t.warehouse_df # None \/ t.shopify_df # None \/ t.ebo_df # None

\* app.py:121-123 applied to every loaded inventory table
WithSize(t) ==
    LET add(df) == IF df = None THEN None ELSE Some(AddSize(Get(df)))
    IN [t EXCEPT !.warehouse_df = add(@), !.shopify_df = add(@), !.ebo_df = add(@)]

\* groupby raises KeyError when a loaded table lacks a key column
GroupByFails(t, key) ==
    \E label \in Range(Inventory) :
        InventoryOf(t)[label] # None /\ ~HasColumns(Get(InventoryOf(t)[label]), key)

(* the search tab *)

\* what is typed in the search box in the runs that search
Queries == {"D1", "B1"}

NoResults == << >>

RECURSIVE unique(_)
\* Series.unique(): the distinct values, in order of first appearance
unique(values) ==
    IF values = << >> THEN << >>
    ELSE LET front == unique(SubSeq(values, 1, Len(values) - 1))
             last == values[Len(values)]
         IN IF last \in Range(front) THEN front ELSE Append(front, last)

Column(df, col) == [i \in DOMAIN df.rows |-> df.rows[i][col].s]

\* df[df[col] == value]["Closing Qty"].sum()
QtyWhere(df, col, value) ==
    SumSeq([i \in DOMAIN df.rows |->
               IF df.rows[i][col].s = value THEN df.rows[i]["Closing Qty"].n ELSE 0])

\* app.py:55-61: the best choice and its score; (None, 0) for an empty query
\* or no choices. extractOne is called without a cutoff, so it returns the
\* best choice whatever its score.
fuzzy_best_match(scorer, q, choices) ==
    IF q = "" \/ choices = << >>
    THEN [match |-> None, score |-> 0]
    ELSE LET best == Get(extractOne(scorer, q, Range(choices)))
             i == CHOOSE j \in DOMAIN choices :
                      /\ scorer[q][choices[j]] = best
                      /\ \A k \in 1..(j - 1) : scorer[q][choices[k]] # best
         IN [match |-> Some(choices[i]), score |-> best]

\* query in df["Barcode"].values
BarcodeHit(df, q) == Plain("Barcode") \in df.columns /\ q \in Range(Column(df, "Barcode"))

\* one pass of the loop of the search tab, app.py:235-243
SearchSource(df, scorer, q) ==
    IF df = None THEN [how |-> "absent", match |-> None, Qty |-> 0]
    ELSE IF BarcodeHit(Get(df), q)
    THEN [how |-> "barcode", match |-> None, Qty |-> QtyWhere(Get(df), "Barcode", q)]
    ELSE LET found == fuzzy_best_match(scorer, q, unique(Column(Get(df), "Design No")))
         IN IF found.match # None /\ Get(found.match) # ""
            THEN [how |-> "fuzzy", match |-> found.match,
                  Qty |-> QtyWhere(Get(df), "Design No", Get(found.match))]
            ELSE [how |-> "none", match |-> None, Qty |-> 0]

\* the search tab of app.py for a query that is not empty
Search(t, scorer, q) ==
    [label \in Range(Inventory) |-> SearchSource(InventoryOf(t)[label], scorer, q)]

\* 2_User.py calls fuzzy_best_match (133, 147) but never defines it: the run
\* ends in a NameError as soon as a loaded table has no barcode equal to q
UserSearchFails(t, q) ==
    \E label \in Range(Inventory) :
        InventoryOf(t)[label] # None /\ ~BarcodeHit(Get(InventoryOf(t)[label]), q)

\* what a dashboard run leaves, from the tables it starts with
Dashboard(t0, scorer, isApp) ==
    LET t1 == IF isApp /\ AnyInventory(t0) THEN WithSize(t0) ELSE t0
        key == IF isApp THEN AppKey ELSE UserKey
        fails == AnyInventory(t1) /\ GroupByFails(t1, key)
    IN [status |-> IF fails THEN "error" ELSE "ok",
        tables |-> t1,
        metrics |-> TRUE,
        overall_total |-> OverallTotal(t0),
        trends |-> Trends(t0.orders_df),
        merged |-> IF ~AnyInventory(t1) \/ fails THEN None
                   ELSE IF isApp THEN Some(AppOverview(InventoryOf(t1)))
                   ELSE Some(UserOverview(InventoryOf(t1))),
        cl |-> IF fails THEN NoClassification ELSE Classify(t1, scorer)]

\* a run that ends before the dashboard: st.stop(), or the Admin page
Blank(t, how) ==
    [status |-> how, tables |-> t, metrics |-> FALSE, overall_total |-> 0,
     trends |-> NoTrends, merged |-> None, cl |-> NoClassification]

\* the run's result r written to the variables
Leave(result) ==
    \E r \in {result} :
        /\ status' = r.status
        /\ tables' = r.tables
        /\ done' = (IF r.metrics THEN {"metrics", "trends"} ELSE {})
                   \cup (IF r.merged # None THEN {"overview"} ELSE {})
                   \cup (IF r.cl.ran THEN {"classify"} ELSE {})
        /\ overall_total' = r.overall_total
        /\ recent' = r.trends.recent
        /\ reorder_designs' = r.trends.reorder
        /\ notselling_designs' = r.trends.notselling
        /\ merged' = r.merged
        /\ external_df' = r.cl.external
        /\ listed' = r.cl.listed
        /\ nonlisted' = r.cl.nonlisted

AdminPassword == "secret"
Passwords == {"secret", "guess"}

\* the four load_file calls of the Admin page
LoadAll(uploads) == [label \in Labels |-> load_file(uploads[label], Req(label), label)]

\* the four fetch_sheet_df calls of app.py
FetchAll(ws) == [label \in Labels |-> fetch_sheet_df(ws[label], Req(label), label)]

Frames(loaded) ==
    [shopify_df |-> loaded["Shopify"].df, warehouse_df |-> loaded["Warehouse"].df,
     ebo_df |-> loaded["EBO"].df, orders_df |-> loaded["Orders"].df]

Errors(loaded) == UNION {loaded[label].err : label \in Labels}

\* mutant: an authenticated run keeps the stored table of a source for which
\* it has no valid file
AdminRun_KeepsStored ==
    \E entered \in Passwords, chosen \in SUBSET Labels :
        LET uploads == [label \in Labels |-> IF label \in chosen THEN sheets[label] ELSE None]
            loaded == LoadAll(uploads)
        IN /\ page' = "admin"
           /\ IF entered # AdminPassword
              THEN /\ UNCHANGED <<files, session>>
                   /\ errors' = {}
                   /\ Leave(Blank(NoFrames, "stopped"))
              ELSE /\ files' = uploads
                   /\ session' = [slot \in Slots |->
                                     IF Frames(loaded)[slot] = None THEN session[slot]
                                     ELSE Frames(loaded)[slot]]
                   /\ errors' = Errors(loaded)
                   /\ Leave(Blank(Frames(loaded), "ok"))
           /\ query' = ""
           /\ results' = NoResults
           /\ UNCHANGED env

\* 1_Admin.py: st.stop() on a wrong password, else load and store all four
AdminRun ==
    \E entered \in Passwords, chosen \in SUBSET Labels :
        LET uploads == [label \in Labels |-> IF label \in chosen THEN sheets[label] ELSE None]
            loaded == LoadAll(uploads)
        IN /\ page' = "admin"
           /\ IF entered # AdminPassword
              THEN /\ UNCHANGED <<files, session>>
                   /\ errors' = {}
                   /\ Leave(Blank(NoFrames, "stopped"))
              ELSE /\ files' = uploads
                   /\ session' = [slot \in Slots |-> Frames(loaded)[slot]]
                   /\ errors' = Errors(loaded)
                   /\ Leave(Blank(Frames(loaded), "ok"))
           /\ query' = ""
           /\ results' = NoResults
           /\ UNCHANGED env

\* 2_User.py with the search box empty: st.stop() when no slot holds a
\* table, else the dashboard
UserRun ==
    LET t == [slot \in Slots |-> session[slot]]
    IN /\ page' = "user"
       /\ errors' = {}
       /\ IF \A slot \in Slots : t[slot] = None
          THEN Leave(Blank(t, "stopped"))
          ELSE Leave(Dashboard(t, WRatio, FALSE))
       /\ query' = ""
       /\ results' = NoResults
       /\ UNCHANGED <<env, files, session>>

\* app.py with the search box empty: fetch the four sheets, then the dashboard
AppRun ==
    LET loaded == FetchAll(sheets)
    IN /\ page' = "app"
       /\ errors' = Errors(loaded)
       /\ Leave(Dashboard(Frames(loaded), WRatio, TRUE))
       /\ query' = ""
       /\ results' = NoResults
       /\ UNCHANGED <<env, files, session>>

\* app.py with a query in the search box: the search tab runs between the
\* overview and the classification
AppSearch ==
    \E q \in Queries :
        LET loaded == FetchAll(sheets)
        IN \E r \in {Dashboard(Frames(loaded), WRatio, TRUE)} :
             /\ page' = "app"
             /\ errors' = Errors(loaded)
             /\ query' = q
             /\ results' = Search(r.tables, WRatio, q)
             /\ Leave(r)
             /\ UNCHANGED <<env, files, session>>

\* 2_User.py with a query in the search box; the box is there only when a
\* slot holds a table. An exception in a tab ends the run: the tabs after it
\* are not computed.
UserSearch ==
    \E q \in Queries :
        LET t == [slot \in Slots |-> session[slot]]
        IN /\ \E slot \in Slots : t[slot] # None
           /\ \E r \in {Dashboard(t, WRatio, FALSE)} :
                /\ page' = "user"
                /\ errors' = {}
                /\ query' = q
                /\ IF r.status = "error"
                   THEN results' = NoResults /\ Leave(r)
                   ELSE IF UserSearchFails(r.tables, q)
                   THEN /\ results' = NoResults
                        /\ Leave([r EXCEPT !.status = "error", !.cl = NoClassification])
                   ELSE /\ results' = Search(r.tables, WRatio, q)
                        /\ Leave(r)
                /\ UNCHANGED <<env, files, session>>

Next == AdminRun \/ UserRun \/ AppRun \/ AppSearch \/ UserSearch

---------------------------------------------------------------------------
(* Inputs *)

\* all the rows of the inventory tables of one run, together
MaxRows == 3
\* the rows of the order table of one run
MaxOrders == 3

InventoryLabels == {"Warehouse", "Shopify", "EBO"}

Columns(label) ==
    CASE label = "Shopify" -> {"Design No", "Barcode", "Closing Qty", "Color", "Size", "CDN link"}
      [] label = "Orders" -> {"Design No", "Quantity", "Created at"}
      [] OTHER -> {"Design No", "Barcode", "Closing Qty", "Color", "Size"}

\* a well-formed header
PlainHeader(label) == {Plain(c) : c \in Columns(label)}

InvRow(label, d, b, qty, color, size) ==
    [k \in Columns(label) |->
        CASE k = "Design No" -> d
          [] k = "Barcode" -> b
          [] k = "Closing Qty" -> qty
          [] k = "Color" -> color
          [] k = "Size" -> size
          [] k = "CDN link" -> Str("cdn")]

OrderRow(d, qty, at) ==
    [k \in Columns("Orders") |->
        CASE k = "Design No" -> d
          [] k = "Quantity" -> qty
          [] k = "Created at" -> at]

Raw(header, rows) == [header |-> header, rows |-> rows]

\* the scorer's table: 100 on equal strings, the given scores elsewhere
Scorer(near) ==
    [q \in Range(DesignOrder) \cup Queries |->
        [c \in Range(DesignOrder) |-> IF q = c THEN 100 ELSE near]]

Fresh ==
    /\ files = [label \in Labels |-> None]
    /\ page = "none"
    /\ status = "ok"
    /\ errors = {}
    /\ tables = NoFrames
    /\ done = {}
    /\ overall_total = 0
    /\ recent = << >>
    /\ reorder_designs = << >>
    /\ notselling_designs = << >>
    /\ merged = None
    /\ external_df = << >>
    /\ listed = << >>
    /\ nonlisted = << >>
    /\ query = ""
    /\ results = NoResults

\* the session after an authenticated Admin run that uploaded every sheet
Uploaded(ws) == [slot \in Slots |-> Frames(LoadAll(ws))[slot]]

\* sheets with rows given per label; a label in absent has no sheet
SheetsOf(rows, absent) ==
    [label \in Labels |->
        IF label \in absent THEN None ELSE Some(Raw(PlainHeader(label), rows[label]))]

(* Overview inputs: keys that differ in Size, the Size cell being text, a
   number or missing *)
OverviewRows(label) ==
    {InvRow(label, Str("D1"), Str("B1"), Num(q), Str("Red"), size) :
        q \in IF label = "Warehouse" THEN {1, 2} ELSE {1},
        size \in {Str("S"), Num(0), NaN}}

InitOverview ==
    /\ \E a \in 0..MaxRows : \E b \in 0..(MaxRows - a) : \E c \in 0..(MaxRows - a - b) :
         \E w \in [1..a -> OverviewRows("Warehouse")],
            s \in [1..b -> OverviewRows("Shopify")],
            e \in [1..c -> OverviewRows("EBO")] :
           LET rows == [label \in Labels |->
                          CASE label = "Warehouse" -> w
                            [] label = "Shopify" -> s
                            [] label = "EBO" -> e
                            [] OTHER -> << >>]
           IN \E absent \in SUBSET {label \in InventoryLabels : rows[label] = << >>} :
                sheets = SheetsOf(rows, absent \cup {"Orders"})
    /\ WRatio = Scorer(0)
    /\ session = Uploaded(sheets)
    /\ Fresh

NextViews == UserRun \/ AppRun

SpecOverview == InitOverview /\ [][NextViews]_vars

(* Classification inputs: external rows that repeat a (Design No, Barcode)
   pair with equal or different quantities; a catalog that shares a design,
   a barcode, both or neither with them; every scorer table of the samples *)
ExternalRows(label) ==
    {InvRow(label, Str(dq[1]), Str("B1"), Num(dq[2]), Str("Red"), Str("S")) :
        dq \in IF label = "Warehouse" THEN {<<"D1", 1>>, <<"D2", 1>>}
                                      ELSE {<<"D1", 1>>, <<"D1", 2>>}}

CatalogRows ==
    {InvRow("Shopify", Str(d), Str(b), Num(1), Str("Red"), Str("S")) :
        d \in {"D2", "D3"}, b \in {"B1", "B3"}}

ClassifyRowsOf(label) == IF label = "Shopify" THEN CatalogRows ELSE ExternalRows(label)

ScoreSamples == {FuzzyThreshold - 1, FuzzyThreshold}

Scorers ==
    {[q \in Range(DesignOrder) \cup Queries |->
        [c \in Range(DesignOrder) |->
            CASE q = c -> 100
              [] q = "D1" /\ c = "D2" -> x
              [] q = "D1" /\ c = "D3" -> y
              [] OTHER -> 0]]
     : x \in ScoreSamples, y \in ScoreSamples}

InitClassify ==
    /\ \E a \in 0..MaxRows : \E b \in 0..(MaxRows - a) : \E c \in 0..(MaxRows - a - b) :
         \E w \in [1..a -> ClassifyRowsOf("Warehouse")],
            s \in [1..b -> ClassifyRowsOf("Shopify")],
            e \in [1..c -> ClassifyRowsOf("EBO")] :
           LET rows == [label \in Labels |->
                          CASE label = "Warehouse" -> w
                            [] label = "Shopify" -> s
                            [] label = "EBO" -> e
                            [] OTHER -> << >>]
           IN \E absent \in SUBSET {label \in InventoryLabels : rows[label] = << >>} :
                sheets = SheetsOf(rows, absent \cup {"Orders"})
    /\ WRatio \in Scorers
    /\ session = Uploaded(sheets)
    /\ Fresh

SpecClassify == InitClassify /\ [][NextViews]_vars

\* Search inputs: the same tables and scorers, without an EBO sheet
InitSearch == InitClassify /\ sheets["EBO"] = None

NextSearch == AppSearch \/ UserSearch

SpecSearch == InitSearch /\ [][NextSearch]_vars

(* Order inputs: quantities whose sums fall below, on and above the
   thresholds; dates before, on and after the cutoff, and dates that do not
   parse *)
OrderRows ==
    {OrderRow(Str(dq[1]), Num(dq[2]), at) :
        dq \in {<<"D1", 5>>, <<"D1", 6>>, <<"D2", 5>>},
        at \in {Num(0), Num(1), Num(WindowDays + 1), Str("soon")}}

InitSales ==
    /\ \E n \in 0..MaxOrders : \E o \in [1..n -> OrderRows] :
         sheets = SheetsOf([label \in Labels |-> IF label = "Orders" THEN o ELSE << >>],
                           InventoryLabels)
    /\ WRatio = Scorer(0)
    /\ session = Uploaded(sheets)
    /\ Fresh

SpecSales == InitSales /\ [][NextViews]_vars

(* Session inputs: one sheet of the four has a header out of the catalog (or
   is not there), the other three are well formed; each has one row *)
OneRow(label) ==
    IF label = "Orders"
    THEN OrderRow(Str("D1"), Num(11), Num(WindowDays + 1))
    ELSE InvRow(label, Str("D1"), Str("B1"), Num(2), Str("Red"), Str("S"))

Padded(c) == [lead |-> 1, core |-> c, trail |-> 1]

\* the headers tried: well formed; names with whitespace around them; one
\* and two required columns missing; the optional columns missing
Headers(label) ==
    LET all == Columns(label)
        first == Req(label)[2]
        second == Req(label)[3]
    IN { {Plain(c) : c \in all},
         {Padded(c) : c \in all},
         {Plain(c) : c \in all \ {first}},
         {IF c = "Design No" THEN Padded(c) ELSE Plain(c) : c \in all \ {first, second}},
         {Plain(c) : c \in Range(Req(label))} }

FileCatalog(label) ==
    {Raw(h, <<[k \in {x.core : x \in h} |-> OneRow(label)[k]]>>) : h \in Headers(label)}

Init ==
    /\ \E odd \in Labels : \E f \in {None} \cup {Some(x) : x \in FileCatalog(odd)} :
         sheets = [label \in Labels |->
                     IF label = odd THEN f
                     ELSE Some(Raw(PlainHeader(label), <<OneRow(label)>>))]
    /\ WRatio = Scorer(0)
    /\ session = [slot \in Slots |-> None]
    /\ Fresh

Spec == Init /\ [][Next]_vars

(* Quantity inputs: one sheet of the four has a row whose quantity cell is a
   positive number, zero, a negative number, text that is no number, or
   missing; the other three are well formed *)
QtySamples == {Num(2), Num(0), Num(0 - 1), Str("abc"), NaN}

QtyColumn(label) == IF label = "Orders" THEN "Quantity" ELSE "Closing Qty"

QtyRow(label, qty) == [OneRow(label) EXCEPT ![QtyColumn(label)] = qty]

InitQty ==
    /\ \E odd \in Labels : \E qty \in QtySamples :
         sheets = [label \in Labels |->
                     Some(Raw(PlainHeader(label),
                              IF label = odd THEN <<OneRow(label), QtyRow(label, qty)>>
                              ELSE <<OneRow(label)>>))]
    /\ WRatio = Scorer(0)
    /\ session = [slot \in Slots |-> None]
    /\ Fresh

SpecQty == InitQty /\ [][Next]_vars

---------------------------------------------------------------------------
(* Claims about the Inventory Overview *)

RECURSIVE SumFn(_)
SumFn(f) ==
    IF DOMAIN f = {} THEN 0
    ELSE LET x == CHOOSE y \in DOMAIN f : TRUE
         IN f[x] + SumFn([y \in DOMAIN f \ {x} |-> f[y]])

OverviewRan == "overview" \in done

\* the grouping key of the script that ran
RunKey == IF page = "app" THEN AppKey ELSE UserKey

LoadedInventory == {label \in InventoryLabels : InventoryOf(tables)[label] # None}

SourceRows(label) == Get(InventoryOf(tables)[label]).rows

\* the key tuples of one source table
SourceKeys(label) == {KeyOf(SourceRows(label)[i], RunKey) : i \in DOMAIN SourceRows(label)}

AllSourceKeys == UNION {SourceKeys(label) : label \in LoadedInventory}

\* the summed quantity of key k in one source, 0 when the source lacks it
SourceQty(label, k) ==
    IF label \in LoadedInventory /\ k \in SourceKeys(label)
    THEN GroupSum(SourceRows(label), RunKey, k)
    ELSE 0

\* the distinct rows of the merged table, and how often each occurs
MergedRows == DOMAIN Get(merged).rows
Copies(x) == Get(merged).rows[x]

\* the number of merged rows whose key is k
RowsWithKey(k) ==
    SumFn([x \in {y \in MergedRows : KeyOf(y, RunKey) = k} |-> Copies(x)])

\* C1: the merged table has exactly one row for every key that some source
\* has, and no row for any other key.
C1_MergeCompleteness ==
    OverviewRan =>
        /\ \A k \in AllSourceKeys : RowsWithKey(k) = 1
        /\ \A x \in MergedRows : KeyOf(x, RunKey) \in AllSourceKeys

\* C2: in every merged row, Total_QTY is the sum over the sources of the
\* quantity the row's key has there, a source without the key counting 0.
C2_TotalIsSourceSum ==
    OverviewRan =>
        \A x \in MergedRows :
            x["Total_QTY"].n =
                SumFn([label \in InventoryLabels |-> SourceQty(label, KeyOf(x, RunKey))])

\* C3: every merged row has a value in each of Warehouse_Qty, Shopify_Qty and
\* EBO_Qty, and the value is 0 when the source lacks the row's key or is not
\* loaded at all.
C3_QtyColumnsFilled ==
    OverviewRan =>
        \A x \in MergedRows : \A label \in InventoryLabels :
            /\ QtyCol(label) \in DOMAIN x
            /\ ~isna(x[QtyCol(label)])
            /\ (label \notin LoadedInventory \/ KeyOf(x, RunKey) \notin SourceKeys(label))
                   => x[QtyCol(label)].n = 0

\* C16: the Total_QTY of the merged rows add up to the Overall Qty metric,
\* the sum of Closing Qty over all rows of the loaded inventory tables.
C16_QuantityConserved ==
    OverviewRan =>
        /\ SumFn([x \in MergedRows |-> Copies(x) * x["Total_QTY"].n]) = overall_total
        /\ overall_total =
               SumFn([label \in LoadedInventory |->
                         SumSeq([i \in DOMAIN SourceRows(label) |->
                                    SourceRows(label)[i]["Closing Qty"].n])])

\* two sources with rows, a row with a missing key cell among them
C16_Witness ==
    /\ OverviewRan
    /\ page = "user"
    /\ Cardinality({label \in LoadedInventory : SourceRows(label) # << >>}) >= 2
    /\ \E label \in LoadedInventory : \E i \in DOMAIN SourceRows(label) :
           isna(SourceRows(label)[i]["Size"])
    /\ overall_total >= 3

---------------------------------------------------------------------------
(* Claims about the classification *)

ClassifyRan == "classify" \in done

Triple(d, b, q) == <<d, b, q>>

\* the (Design No, Barcode, Closing Qty) rows of the loaded external tables
ExternalOf(df) ==
    IF df = None THEN {}
    ELSE {Triple(Get(df).rows[i]["Design No"].s, Get(df).rows[i]["Barcode"].s,
                 Get(df).rows[i]["Closing Qty"].n) : i \in DOMAIN Get(df).rows}

ExternalTriples == ExternalOf(tables.warehouse_df) \cup ExternalOf(tables.ebo_df)

EntryTriple(e) == Triple(e.Design_No, e.Barcode, e.Closing_Qty)

\* how many entries of a list carry the triple
Occurs(list, tr) == Cardinality({i \in DOMAIN list : EntryTriple(list[i]) = tr})

CatalogDesigns == {r["Design No"].s : r \in Range(Get(tables.shopify_df).rows)}
CatalogBarcodes == {r["Barcode"].s : r \in Range(Get(tables.shopify_df).rows)}

ExactMatch(tr) == tr[1] \in CatalogDesigns \/ tr[2] \in CatalogBarcodes

\* the best score of design d against the catalog's designs; -1 for no catalog design
BestScore(d) ==
    IF CatalogDesigns = {} THEN -1
    ELSE CHOOSE m \in {WRatio[d][c] : c \in CatalogDesigns} :
            \A c \in CatalogDesigns : WRatio[d][c] <= m

\* C4: every deduplicated external record is in exactly one of listed and
\* nonlisted: the lists share no record and their lengths add up to the
\* number of deduplicated records.
C4_ClassificationComplete ==
    ClassifyRan =>
        /\ Len(listed) + Len(nonlisted) = Cardinality(ExternalTriples)
        /\ Len(external_df) = Cardinality(ExternalTriples)
        /\ \A tr \in ExternalTriples : Occurs(listed, tr) + Occurs(nonlisted, tr) = 1
        /\ \A i \in DOMAIN listed : \A j \in DOMAIN nonlisted :
               EntryTriple(listed[i]) # EntryTriple(nonlisted[j])

\* both external tables give a record, one ends listed and one non-listed
C4_Witness ==
    /\ ClassifyRan
    /\ listed # << >>
    /\ nonlisted # << >>
    /\ ExternalOf(tables.warehouse_df) # {}
    /\ ExternalOf(tables.ebo_df) # {}

\* C5: an external record whose Design No is among the catalog's designs or
\* whose Barcode is among the catalog's barcodes is listed as Exact, and is
\* neither non-listed nor tagged Fuzzy, whatever its fuzzy score.
C5_ExactIsListed ==
    ClassifyRan =>
        \A tr \in ExternalTriples :
            ExactMatch(tr) =>
                /\ \E i \in DOMAIN listed :
                       EntryTriple(listed[i]) = tr /\ listed[i].Match_Type = "Exact"
                /\ \A i \in DOMAIN listed :
                       EntryTriple(listed[i]) = tr => listed[i].Match_Type = "Exact"
                /\ Occurs(nonlisted, tr) = 0

\* a record matched by its barcode alone, whose design scores below the
\* threshold
C5_Witness ==
    /\ ClassifyRan
    /\ \E tr \in ExternalTriples :
           /\ tr[1] \notin CatalogDesigns /\ tr[2] \in CatalogBarcodes
           /\ BestScore(tr[1]) < FuzzyThreshold
           /\ Occurs(listed, tr) = 1

\* C6: an external record with no exact match is listed, tagged with its best
\* score, exactly when the best score of its Design No against the catalog's
\* designs is at least 80; otherwise, and when the catalog has no design, it
\* is non-listed.
C6_FuzzyIffThreshold ==
    ClassifyRan =>
        \A tr \in ExternalTriples :
            ~ExactMatch(tr) =>
                IF CatalogDesigns # {} /\ BestScore(tr[1]) >= 80
                THEN /\ \E i \in DOMAIN listed :
                            /\ EntryTriple(listed[i]) = tr
                            /\ listed[i].Match_Type = FuzzyTag(BestScore(tr[1]))
                     /\ Occurs(nonlisted, tr) = 0
                ELSE /\ Occurs(nonlisted, tr) = 1
                     /\ Occurs(listed, tr) = 0

\* a record whose best score is exactly 80, of two catalog designs of which
\* the other scores 79
C6_Witness ==
    /\ ClassifyRan
    /\ \E tr \in ExternalTriples :
           /\ ~ExactMatch(tr)
           /\ BestScore(tr[1]) = 80
           /\ \E c \in CatalogDesigns : WRatio[tr[1]][c] = 79
           /\ Occurs(listed, tr) = 1

EntryPair(e) == <<e.Design_No, e.Barcode>>

AllEntries == [i \in 1..(Len(listed) + Len(nonlisted)) |->
                 IF i <= Len(listed) THEN EntryTriple(listed[i])
                 ELSE EntryTriple(nonlisted[i - Len(listed)])]

\* C7 as claimed: across listed and nonlisted together, each (Design No,
\* Barcode) pair is in at most one record.
C7_PairsUnique ==
    ClassifyRan =>
        \A i, j \in DOMAIN AllEntries :
            (AllEntries[i][1] = AllEntries[j][1] /\ AllEntries[i][2] = AllEntries[j][2])
                => i = j

\* C7 as amended: across listed and nonlisted together, each (Design No,
\* Barcode, Closing Qty) row is in at most one record, however often the
\* external tables repeat it.
C7_RowsUnique ==
    ClassifyRan =>
        \A i, j \in DOMAIN AllEntries : AllEntries[i] = AllEntries[j] => i = j

\* one row in both external tables, and a pair with two quantities
C7_Witness ==
    /\ ClassifyRan
    /\ tables.warehouse_df # None /\ tables.ebo_df # None
    /\ \E tr \in ExternalOf(tables.warehouse_df) \cap ExternalOf(tables.ebo_df) :
           /\ Occurs(listed, tr) + Occurs(nonlisted, tr) = 1
           /\ \E other \in ExternalTriples :
                  other # tr /\ other[1] = tr[1] /\ other[2] = tr[2]

---------------------------------------------------------------------------
(* Claims about the sales trends *)

TrendsRan == "trends" \in done /\ tables.orders_df # None

\* the order sheet as given, and the order table made of it, row for row
RawOrders == Get(IF page = "admin" THEN files["Orders"] ELSE sheets["Orders"]).rows
Orders == Get(tables.orders_df).rows

\* an order's date parsed; the latest parsed date
Parsed(i) == RawOrders[i]["Created at"].t = "num"
DayOf(i) == RawOrders[i]["Created at"].n
Latest(i) == Parsed(i) /\ \A j \in DOMAIN RawOrders : Parsed(j) => DayOf(j) <= DayOf(i)

\* the order is inside the window: its date parsed and is no more than three
\* days before the latest
InWindow(i) ==
    /\ Parsed(i)
    /\ \E m \in DOMAIN RawOrders : Latest(m) /\ DayOf(i) >= DayOf(m) - 3

WindowDesigns == {Orders[i]["Design No"].s : i \in {j \in DOMAIN Orders : InWindow(j)}}

\* the summed in-window quantity of a design
WindowQty(d) ==
    SumFn([i \in {j \in DOMAIN Orders : InWindow(j) /\ Orders[j]["Design No"].s = d}
             |-> Orders[i]["Quantity"].n])

\* C8: a design with an order inside the window is in the reorder list iff its
\* summed in-window quantity is above 10, in the not-selling list iff it is
\* below 10, in neither when it is 10, and never in both.
C8_VelocityBuckets ==
    TrendsRan =>
        \A d \in WindowDesigns :
            /\ d \in Range(reorder_designs) <=> WindowQty(d) > 10
            /\ d \in Range(notselling_designs) <=> WindowQty(d) < 10
            /\ WindowQty(d) = 10 =>
                   d \notin Range(reorder_designs) \cup Range(notselling_designs)
            /\ ~(d \in Range(reorder_designs) /\ d \in Range(notselling_designs))

\* a design that sold exactly 10 in the window beside one that sold less
C8_Witness ==
    /\ TrendsRan
    /\ \E d \in WindowDesigns : WindowQty(d) = 10
    /\ notselling_designs # << >>

\* the rows of a sequence at the indexes that satisfy keep, in order
RECURSIVE Keep(_, _, _)
Keep(rows, n, keep) ==
    IF n = 0 THEN << >>
    ELSE IF n \in keep THEN Append(Keep(rows, n - 1, keep), rows[n])
    ELSE Keep(rows, n - 1, keep)

\* C9: the window holds exactly the orders whose date parsed and lies at or
\* after the latest date minus 3 days; an order whose date did not parse is
\* in no window and adds to no design's quantity.
C9_WindowInclusive ==
    TrendsRan =>
        /\ recent = Keep(Orders, Len(Orders), {i \in DOMAIN Orders : InWindow(i)})
        /\ \A d \in Range(reorder_designs) \cup Range(notselling_designs) :
               d \in WindowDesigns

\* an order exactly at the cutoff beside one whose date did not parse
C9_Witness ==
    /\ TrendsRan
    /\ \E i, m \in DOMAIN RawOrders :
           Latest(m) /\ Parsed(i) /\ DayOf(i) = DayOf(m) - 3 /\ Orders[i] \in Range(recent)
    /\ \E i \in DOMAIN RawOrders : ~Parsed(i)
    /\ Len(recent) = Len(Orders) - 1

\* C13: when no order has a date that parsed (or there is no order at all),
\* the reorder list and the not-selling list are empty and the run does not
\* end in an error.
C13_NoTimestampNoTrends ==
    (TrendsRan /\ \A i \in DOMAIN RawOrders : ~Parsed(i)) =>
        /\ reorder_designs = << >>
        /\ notselling_designs = << >>
        /\ recent = << >>
        /\ status = "ok"

\* orders of one design that sum above the threshold, none with a date
C13_Witness ==
    /\ TrendsRan
    /\ Len(Orders) >= 2
    /\ \A i \in DOMAIN RawOrders : ~Parsed(i)
    /\ \E d \in SalesDesigns(Orders) : Sales(Orders, d) > ReorderThreshold
    /\ reorder_designs = << >>

\* an order table without rows
C13_WitnessEmpty == TrendsRan /\ Orders = << >> /\ notselling_designs = << >>

---------------------------------------------------------------------------
(* Claims about the loader *)

LoaderRan == page = "app" \/ (page = "admin" /\ status = "ok")

\* what the loader was given for a label
Given(label) == IF page = "admin" THEN files[label] ELSE sheets[label]

\* the required columns no column of the header is, whitespace aside
Lacking(label) ==
    {c \in Range(Req(label)) : \A h \in Get(Given(label)).header : h.core # c}

\* C10: a table that lacks required columns, once the names are stripped,
\* gives an error naming each of them and no table; the run goes on, and a
\* table that lacks none is loaded.
C10_SchemaError ==
    LoaderRan =>
        /\ status = "ok"
        /\ \A label \in Labels :
               Given(label) # None =>
                   IF Lacking(label) # {}
                   THEN /\ tables[SlotOf(label)] = None
                        /\ page = "admin" => session[SlotOf(label)] = None
                        /\ \E e \in errors :
                               e.label = label /\ Range(e.missing) = Lacking(label)
                   ELSE /\ tables[SlotOf(label)] # None
                        /\ page = "admin" => session[SlotOf(label)] # None
                        /\ \A e \in errors : e.label # label

\* a table that lacks two required columns beside three that are loaded
C10_Witness ==
    /\ LoaderRan
    /\ \E label \in Labels :
           /\ Given(label) # None
           /\ Cardinality(Lacking(label)) = 2
           /\ \A other \in Labels \ {label} : tables[SlotOf(other)] # None

---------------------------------------------------------------------------
(* Claims about the quantities *)

\* the quantity cells of the tables the run loaded
QtyCells ==
    UNION {{Get(tables[SlotOf(label)]).rows[i][QtyColumn(label)] :
               i \in DOMAIN Get(tables[SlotOf(label)]).rows} :
           label \in {l \in Labels : tables[SlotOf(l)] # None}}

\* C11: after a load, every quantity of every loaded table is an integer that
\* is not negative, whatever the raw cell was.
C11_QtyNonNegative ==
    LoaderRan => \A c \in QtyCells : c.t = "num" /\ c.n >= 0

---------------------------------------------------------------------------
(* Claims about the search *)

SearchRan == query # "" /\ results # NoResults

\* C12: a search resolves the query to a design of a source only if that
\* design scores at least the threshold against the query.
C12_NoMatchBelowThreshold ==
    SearchRan =>
        \A label \in InventoryLabels :
            results[label].match # None =>
                WRatio[query][Get(results[label].match)] >= FuzzyThreshold

---------------------------------------------------------------------------
(* Claims about the source tables *)

\* the tables a dashboard run starts from: fetched and normalized by app.py,
\* read from the session by the User page
Ingested ==
    IF page = "app" THEN Frames(FetchAll(sheets))
    ELSE [slot \in Slots |-> session[slot]]

DashboardRan == page \in {"app", "user"} /\ status # "stopped"

\* C14: at the end of a dashboard run each of the four source tables has the
\* columns and rows it had when the run started.
C14_SourceTablesUnchanged ==
    DashboardRan => \A slot \in Slots : tables[slot] = Ingested[slot]

\* the key columns an ingested inventory table lacks
LackingKey(label) ==
    {a \in RunKey : Plain(a) \notin Get(InventoryOf(Ingested)[label]).columns}

IngestedInventory == {label \in InventoryLabels : InventoryOf(Ingested)[label] # None}

\* the key of an ingested row, the attributes the table lacks being ""
DefaultedKey(label, row) ==
    [a \in RunKey |-> IF a \in LackingKey(label) THEN Str("") ELSE row[a]]

\* C15: a loaded inventory table that lacks a key attribute column is still
\* aggregated and merged: the run does not fail, and each of its rows is in
\* the merged table under its key with "" for the attribute, with the
\* source's quantity column.
C15_MissingAttributeDefaults ==
    (DashboardRan /\ IngestedInventory # {}) =>
        \A label \in IngestedInventory :
            LackingKey(label) # {} =>
                /\ status = "ok"
                /\ merged # None
                /\ \A i \in DOMAIN Get(InventoryOf(Ingested)[label]).rows :
                       \E x \in MergedRows :
                           /\ KeyOf(x, RunKey) =
                                  DefaultedKey(label, Get(InventoryOf(Ingested)[label]).rows[i])
                           /\ QtyCol(label) \in DOMAIN x

---------------------------------------------------------------------------
(* Claims about the session *)

\* a file that has every required column of its source, whitespace aside
ValidFile(file, label) ==
    /\ file # None
    /\ \A c \in Range(Req(label)) : \E h \in Get(file).header : h.core = c

\* each slot holds a table iff the last authenticated Admin run had a valid
\* file for its source
SlotsMatchUpload ==
    \A label \in Labels : session[SlotOf(label)] # None <=> ValidFile(files[label], label)

\* what one run does to the slots
SlotsStep ==
    /\ (page' = "admin" /\ status' = "stopped") => (session' = session /\ files' = files)
    /\ (page' = "admin" /\ status' = "ok") =>
           \A label \in Labels :
               session'[SlotOf(label)] # None <=> ValidFile(files'[label], label)
    /\ page' \in {"user", "app"} => (session' = session /\ files' = files)

\* C17: the slots hold exactly the tables of the valid files of the last
\* authenticated Admin run: a run that fails the password check and a User
\* run leave all four slots as they are, an authenticated run sets all four,
\* to no table where it has no valid file.
C17_SessionSlots == [](SlotsMatchUpload) /\ [][SlotsStep]_vars

\* after a run that stored tables, a run that failed the password check: the
\* slots still hold a table for one source and none for a source whose file
\* lacked a required column
C17_Witness ==
    /\ page = "admin"
    /\ status = "stopped"
    /\ \E label \in Labels : session[SlotOf(label)] # None
    /\ \E label \in Labels :
           files[label] # None /\ ~ValidFile(files[label], label) /\ session[SlotOf(label)] = None
    /\ \E label \in Labels : files[label] = None

====
